---- MODULE Spec2Model ----
(***************************************************************************)
(* Model of smart_rockets (src/main.py): the Rocket agents, the Simulation *)
(* (restart, update, next_gen with selection / crossover / mutation) and   *)
(* the main loop that drives it.                                           *)
(*                                                                         *)
(* Floats are modelled in fixed point: a coordinate or a fitness value v   *)
(* is held as the integer v * Scale.  The random module is modelled as a   *)
(* deterministic generator whose seed is an input; every draw of the code  *)
(* (randint, uniform, choice) consumes one value of it, in the code's      *)
(* order.                                                                  *)
(***************************************************************************)
EXTENDS Integers, Sequences, FiniteSets, TLC

\* ------------------------------------------------------------------ bounds
GenomeLen == 2      \* genes per rocket (300 in the source, line 20)
MaxSeed == 2        \* number of generator seeds tried
MaxGen == 3         \* next_gen is not modelled beyond this generation
MaxKeys == 2        \* control events (keys, mouse clicks) per run
MaxPopulation == 16 \* largest population of the size runs, besides 100 and 101
MaxMutationState == 300 \* generator states tried as the start of a mutation

\* -------------------------------------------------------- program constants
WinWidth == 600
WinHeight == 800
GeneMax == 7
GeneMin == 0 - GeneMax
Force == 3
InitAngle == 270
ResetUp == 3
ResetDown == 50
GoalRadius == 10
FpsInit == 30
FpsStep == 5
FpsMax == 300
FpsMin == 5
Unevaluated == 0 - 1

\* fixed-point resolution of the float coordinates and fitness values
Scale == 100

\* ------------------------------------------------------------- arithmetic
\* round(sin(d degrees) * Scale) for d = 0..90
QuarterSine ==
  << 0, 2, 3, 5, 7, 9, 10, 12, 14, 16, 17, 19, 21, 22, 24, 26, 28, 29, 31, 33,
     34, 36, 37, 39, 41, 42, 44, 45, 47, 48, 50, 52, 53, 54, 56, 57, 59, 60,
     62, 63, 64, 66, 67, 68, 69, 71, 72, 73, 74, 75, 77, 78, 79, 80, 81, 82,
     83, 84, 85, 86, 87, 87, 88, 89, 90, 91, 91, 92, 93, 93, 94, 95, 95, 96,
     96, 97, 97, 97, 98, 98, 98, 99, 99, 99, 99, 100, 100, 100, 100, 100, 100 >>

\* math.sin(math.radians(a)) * Scale
Sin(a) ==
  LET d == a % 360
  IN  IF d <= 90 THEN QuarterSine[d + 1]
      ELSE IF d <= 180 THEN QuarterSine[180 - d + 1]
      ELSE IF d <= 270 THEN 0 - QuarterSine[d - 180 + 1]
      ELSE 0 - QuarterSine[360 - d + 1]

\* math.cos(math.radians(a)) * Scale
Cos(a) == Sin(a + 90)

RECURSIVE SqrtBetween(_, _, _)
SqrtBetween(n, lo, hi) ==
  IF lo >= hi THEN lo
  ELSE LET mid == (lo + hi + 1) \div 2
       IN  IF mid * mid <= n THEN SqrtBetween(n, mid, hi)
           ELSE SqrtBetween(n, lo, mid - 1)

\* floor of the square root; 46340 is the largest root of a 32-bit integer
Isqrt(n) == SqrtBetween(n, 0, 46340)

Point(x, y) == [x |-> x, y |-> y]

\* Simulation._distance: math.hypot(p1.x - p2.x, p1.y - p2.y)
Distance(p1, p2) ==
  Isqrt((p1.x - p2.x) * (p1.x - p2.x) + (p1.y - p2.y) * (p1.y - p2.y))

\* round(v) of a fixed-point value v: nearest integer, halves to even
Round(v) ==
  LET q == v \div Scale
      r == v % Scale
  IN  IF 2 * r < Scale THEN q
      ELSE IF 2 * r > Scale THEN q + 1
      ELSE IF q % 2 = 0 THEN q ELSE q + 1

Max(a, b) == IF a >= b THEN a ELSE b

\* ------------------------------------------------------- random generator
RngMod == 30269
RngMul == 171

\* the generator state after one more draw
NextRand(r) == (RngMul * r) % RngMod

RECURSIVE PowMod(_, _)
\* RngMul^k modulo RngMod, by squaring
PowMod(b, k) ==
  IF k = 0 THEN 1
  ELSE LET h == PowMod(b, k \div 2)
           sq == (h * h) % RngMod
       IN  IF k % 2 = 0 THEN sq ELSE (sq * b) % RngMod

\* the generator state after k more draws: NextRand applied k times
Advance(r, k) == (r * PowMod(RngMul, k)) % RngMod

\* random.randint(lo, hi), read from the state r reached by the draw
RandInt(r, lo, hi) == lo + (r % (hi - lo + 1))

\* random.uniform(0.0, 1.0) <= 0.1, read from the state r reached by the draw
UniformBelowTenth(r) == r * 10 <= RngMod

\* the index random.choice picks in a sequence of n > 0 elements (1-based)
ChoiceIndex(r, n) == (r % n) + 1

Seeds == { (k * 7919) % RngMod : k \in 1..MaxSeed }

\* ------------------------------------------------------------------ state
VARIABLES
  rockets,       \* Simulation.rockets: sequence of Rocket records
  index,         \* Simulation.index: the tick index
  obstacles,     \* Simulation.obstacles: rectangles, fixed point
  generation,    \* Simulation.generation
  best_fitness,  \* Simulation.best_fitness (whole units)
  fps,           \* Simulation.fps
  population,    \* Simulation.population: the configured N
  start,         \* Simulation.start (pixels)
  goal,          \* Simulation.goal (pixels)
  cnf,           \* the content of config.json
  rng,           \* state of the random generator
  nextId,        \* Rocket._id: the next id handed out
  pc,            \* position in main(): "events", "breed", "step", "exit", "crashed"
  done,          \* main's done flag
  err,           \* the exception that ended the program, or "none"
  keys,          \* control events handled so far
  op,            \* the operation that produced this state
  solved,        \* some rocket has been within GoalRadius of the goal since the last restart
  extended       \* the last _selection since the restart ran rockets.extend(rockets[-2:])

vars == << rockets, index, obstacles, generation, best_fitness, fps, population,
           start, goal, cnf, rng, nextId, pc, done, err, keys, op, solved,
           extended >>

\* ------------------------------------------------------------------ inputs
Rect(x, y, w, h) == [x |-> x, y |-> y, w |-> w, h |-> h]

\* the contents of config.json that are tried
Configs ==
  { [population |-> 10, start_pos |-> Point(300, 53), goal |-> Point(290, 40),
     obstacles |-> << Rect(300, 0, 10, 2) >>],
    [population |-> 11, start_pos |-> Point(300, 53), goal |-> Point(290, 40),
     obstacles |-> << Rect(300, 0, 10, 2) >>],
    [population |-> 10, start_pos |-> Point(300, 92), goal |-> Point(300, 30),
     obstacles |-> << Rect(280, 38, 40, 2) >>],
    [population |-> 5, start_pos |-> Point(300, 53), goal |-> Point(290, 40),
     obstacles |-> << Rect(290, 1, 20, 1) >>],
    [population |-> 2, start_pos |-> Point(300, 53), goal |-> Point(290, 40),
     obstacles |-> << >>],
    [population |-> 1, start_pos |-> Point(300, 53), goal |-> Point(290, 40),
     obstacles |-> << >> ] }

\* the populations of the size runs
Populations == (10..MaxPopulation) \cup {100, 101}

\* the contents of config.json of the size runs: one per population, and one
\* whose goal is within GoalRadius of the reset position
SizeConfigs ==
  { [population |-> n, start_pos |-> Point(300, 53), goal |-> Point(290, 40),
     obstacles |-> << Rect(300, 0, 10, 2) >>] : n \in Populations }
  \cup
  { [population |-> 10, start_pos |-> Point(300, 53), goal |-> Point(300, 0),
     obstacles |-> << >>] }

\* the points pygame.mouse.get_pos() returns that are tried (inside the window)
MousePoints == { Point(300, 53), Point(300, 4), Point(310, 40) }

\* a pixel point in fixed point
Fix(p) == Point(p.x * Scale, p.y * Scale)

\* --------------------------------------------------------------- Rocket
\* Rocket with a counter that starts again for every rocket
RocketFirstId(r, id) ==
  [ id |-> 0,
    genome |-> [i \in 1..GenomeLen |-> RandInt(Advance(r, i), GeneMin, GeneMax)],
    gref |-> 0,
    fitness |-> Unevaluated * Scale,
    alive |-> TRUE,
    angle |-> 0,
    pos |-> Point(0, 0) ]

\* Rocket.__init__ called when the generator state is r: the genome is the
\* next GenomeLen draws, held in a list of its own; gref names the list object
\* the genome field refers to (2 * id for the list __init__ makes)
Rocket(r, id) ==
  [ id |-> id,
    genome |-> [i \in 1..GenomeLen |-> RandInt(Advance(r, i), GeneMin, GeneMax)],
    gref |-> 2 * id,
    fitness |-> Unevaluated * Scale,
    alive |-> TRUE,
    angle |-> 0,
    pos |-> Point(0, 0) ]

\* [Rocket() for _ in range(n)]
NewRockets(r, id0, n) ==
  [j \in 1..n |-> Rocket(Advance(r, (j - 1) * GenomeLen), id0 + j - 1)]

\* Rocket.apply_force
ApplyForce(rk, force) ==
  [rk EXCEPT !.pos = Point(rk.pos.x + Cos(rk.angle) * force,
                           rk.pos.y + Sin(rk.angle) * force)]

\* ------------------------------------------------------------ Simulation
\* ResetRockets that leaves the alive flags as they are
ResetRocketsKeepDead(rs, st) ==
  [j \in 1..Len(rs) |->
     [rs[j] EXCEPT !.pos = Fix(Point(st.x, st.y + ResetUp - ResetDown)),
                   !.angle = InitAngle]]

\* ResetRockets without the offset from the start platform
ResetRocketsAtStart(rs, st) ==
  [j \in 1..Len(rs) |->
     [rs[j] EXCEPT !.pos = Fix(st), !.angle = InitAngle, !.alive = TRUE]]

\* Simulation._reset_rockets
ResetRockets(rs, st) ==
  [j \in 1..Len(rs) |->
     [rs[j] EXCEPT !.pos = Fix(Point(st.x, st.y + ResetUp - ResetDown)),
                   !.angle = InitAngle,
                   !.alive = TRUE]]

\* Simulation.alive_rockets
AliveCount(rs) == Cardinality({j \in 1..Len(rs) : rs[j].alive})

alive_rockets == AliveCount(rockets)

\* Simulation.found_solution
FoundSolution(rs, g) ==
  \E j \in 1..Len(rs) : Distance(rs[j].pos, Fix(g)) < GoalRadius * Scale

found_solution == FoundSolution(rockets, goal)

\* Step with the instruction added to the heading before the move
StepHeadingFirst(rk, idx) ==
  IF rk.alive
  THEN ApplyForce([rk EXCEPT
                     !.angle = rk.angle + rk.genome[(idx % Len(rk.genome)) + 1]],
                  Force)
  ELSE rk

\* Step without the test of rocket.alive
StepEvenIfDead(rk, idx) ==
  [ApplyForce(rk, Force) EXCEPT
     !.angle = rk.angle + rk.genome[(idx % Len(rk.genome)) + 1]]

\* one rocket's part of the loop of Simulation.update at tick index idx
Step(rk, idx) ==
  IF rk.alive
  THEN [ApplyForce(rk, Force) EXCEPT
          !.angle = rk.angle + rk.genome[(idx % Len(rk.genome)) + 1]]
  ELSE rk

\* the loop of Simulation.update over all rockets
MoveRockets(rs, idx) == [j \in 1..Len(rs) |-> Step(rs[j], idx)]

\* pygame.Rect.collidepoint: left and top edges inside, right and bottom outside
CollidePoint(obs, p) ==
  /\ obs.x * Scale <= p.x
  /\ p.x < (obs.x + obs.w) * Scale
  /\ obs.y * Scale <= p.y
  /\ p.y < (obs.y + obs.h) * Scale

\* Collides with the edges of the window counted as outside
CollidesAtBoundary(rk, obs) ==
  \/ rk.pos.x <= 0
  \/ rk.pos.x >= WinWidth * Scale
  \/ rk.pos.y <= 0
  \/ rk.pos.y >= WinHeight * Scale
  \/ \E k \in 1..Len(obs) : CollidePoint(obs[k], rk.pos)

\* the rocket is off the window or inside an obstacle
Collides(rk, obs) ==
  \/ rk.pos.x < 0
  \/ rk.pos.x > WinWidth * Scale
  \/ rk.pos.y < 0
  \/ rk.pos.y > WinHeight * Scale
  \/ \E k \in 1..Len(obs) : CollidePoint(obs[k], rk.pos)

\* Simulation._check_collision
CheckCollision(rs, obs) ==
  [j \in 1..Len(rs) |->
     IF Collides(rs[j], obs) THEN [rs[j] EXCEPT !.alive = FALSE] ELSE rs[j]]

\* total_distance of Simulation._fitness
TotalDistance(st, g) == Distance(Fix(st), Fix(g))

\* Fitness that skips the rockets that are not alive
FitnessAliveOnly(rs, st, g) ==
  [j \in 1..Len(rs) |->
     IF rs[j].alive
     THEN [rs[j] EXCEPT !.fitness =
             100 * Scale
               - (Distance(rs[j].pos, Fix(g)) * 100 * Scale) \div TotalDistance(st, g)]
     ELSE rs[j]]

\* Simulation._fitness, for total_distance # 0
Fitness(rs, st, g) ==
  [j \in 1..Len(rs) |->
     [rs[j] EXCEPT !.fitness =
        100 * Scale
          - (Distance(rs[j].pos, Fix(g)) * 100 * Scale) \div TotalDistance(st, g)]]

\* max(self.rockets, key=fitness).fitness, for a non-empty population
MaxFitness(rs) ==
  CHOOSE f \in {rs[j].fitness : j \in 1..Len(rs)} :
    \A j \in 1..Len(rs) : rs[j].fitness <= f

\* SortedByFitness with rockets of equal fitness in reverse population order
SortedTiesReversed(rs) ==
  LET rank(i) ==
        Cardinality({j \in 1..Len(rs) : rs[j].fitness > rs[i].fitness})
          + Cardinality({j \in i..Len(rs) : rs[j].fitness = rs[i].fitness})
  IN  [k \in 1..Len(rs) |-> rs[CHOOSE i \in 1..Len(rs) : rank(i) = k]]

\* sorted(rockets, key=fitness, reverse=True): stable, descending
SortedByFitness(rs) ==
  LET rank(i) ==
        Cardinality({j \in 1..Len(rs) : rs[j].fitness > rs[i].fitness})
          + Cardinality({j \in 1..i : rs[j].fitness = rs[i].fitness})
  IN  [k \in 1..Len(rs) |-> rs[CHOOSE i \in 1..Len(rs) : rank(i) = k]]

\* int(0.2 * n)
EliteCount(n) == (2 * n) \div 10

\* SelectionWith whose result is the local list itself, cut before the extend
SelectionExtendsResult(rs, fires) ==
  LET sorted == SortedByFitness(rs)
      worst == SubSeq(sorted, Max(1, Len(sorted) - 1), Len(sorted))
      top == SubSeq(sorted, 1, EliteCount(Len(sorted)))
  IN  [ result |-> IF fires THEN top \o worst ELSE top,
        ranked |-> IF fires THEN sorted \o worst ELSE sorted,
        held |-> rs ]

\* Simulation._selection, fires telling whether random.uniform(0.0, 1.0) <= 0.1:
\* result is what it returns, ranked is its local list when it returns, held
\* is the list it was given (sorted() copies, the slice copies)
SelectionWith(rs, fires) ==
  LET sorted == SortedByFitness(rs)
      worst == SubSeq(sorted, Max(1, Len(sorted) - 1), Len(sorted))
  IN  [ result |-> SubSeq(sorted, 1, EliteCount(Len(sorted))),
        ranked |-> IF fires THEN sorted \o worst ELSE sorted,
        held |-> rs ]

\* Simulation._selection with the generator state r reached by its draw
Selection(rs, r) == SelectionWith(rs, UniformBelowTenth(r))

\* PairCount rounding up
PairCountRoundUp(n, e) == (n - e + 1) \div 2

\* int((self.population - len(rockets)) / 2)
PairCount(n, e) == (n - e) \div 2

\* Splice with the second slice starting one gene late
SpliceShort(g1, g2, split) == SubSeq(g1, 1, split) \o SubSeq(g2, split + 2, Len(g2))

\* parent.genome[0:split] + other.genome[split:]
Splice(g1, g2, split) == SubSeq(g1, 1, split) \o SubSeq(g2, split + 1, Len(g2))

\* the draws of one turn of the loop of Simulation._crossover: two
\* random.choice, two Rocket() and one randint
DrawsPerPair == 2 * GenomeLen + 3

\* Pair with parent2 chosen among all the elites, parent1 included
PairAnyParents(k, elites, r, id) ==
  LET r1 == NextRand(Advance(r, (k - 1) * DrawsPerPair))
      parent1 == elites[ChoiceIndex(r1, Len(elites))]
      r2 == NextRand(r1)
      parent2 == elites[ChoiceIndex(r2, Len(elites))]
      child1 == Rocket(r2, id + 2 * (k - 1))
      r3 == Advance(r2, GenomeLen)
      child2 == Rocket(r3, id + 2 * (k - 1) + 1)
      r4 == NextRand(Advance(r3, GenomeLen))
      split == RandInt(r4, 0, Len(parent1.genome))
  IN  << [child1 EXCEPT !.genome = Splice(parent1.genome, parent2.genome, split),
                        !.gref = 2 * child1.id + 1],
         [child2 EXCEPT !.genome = Splice(parent2.genome, parent1.genome, split),
                        !.gref = 2 * child2.id + 1] >>

\* Pair that hands a parent's own list to a child when the split leaves
\* nothing of the other parent
PairReusingLists(k, elites, r, id) ==
  LET r1 == NextRand(Advance(r, (k - 1) * DrawsPerPair))
      parent1 == elites[ChoiceIndex(r1, Len(elites))]
      Other(e) == e.id # parent1.id
      others == SelectSeq(elites, Other)
      r2 == NextRand(r1)
      parent2 == others[ChoiceIndex(r2, Len(others))]
      child1 == Rocket(r2, id + 2 * (k - 1))
      r3 == Advance(r2, GenomeLen)
      child2 == Rocket(r3, id + 2 * (k - 1) + 1)
      r4 == NextRand(Advance(r3, GenomeLen))
      split == RandInt(r4, 0, Len(parent1.genome))
  IN  IF split = Len(parent1.genome)
      THEN << [child1 EXCEPT !.genome = parent1.genome, !.gref = parent1.gref],
              [child2 EXCEPT !.genome = parent2.genome, !.gref = parent2.gref] >>
      ELSE << [child1 EXCEPT !.genome = Splice(parent1.genome, parent2.genome, split),
                             !.gref = 2 * child1.id + 1],
              [child2 EXCEPT !.genome = Splice(parent2.genome, parent1.genome, split),
                             !.gref = 2 * child2.id + 1] >>

\* the two children made by turn k (1-based) of the loop of
\* Simulation._crossover, for at least two elites; r and id are the generator
\* state and the id counter when the loop starts; the concatenation of two
\* slices is a new list, named 2 * id + 1 for the child with that id
Pair(k, elites, r, id) ==
  LET r1 == NextRand(Advance(r, (k - 1) * DrawsPerPair))
      parent1 == elites[ChoiceIndex(r1, Len(elites))]
      Other(e) == e.id # parent1.id
      others == SelectSeq(elites, Other)
      r2 == NextRand(r1)
      parent2 == others[ChoiceIndex(r2, Len(others))]
      child1 == Rocket(r2, id + 2 * (k - 1))
      r3 == Advance(r2, GenomeLen)
      child2 == Rocket(r3, id + 2 * (k - 1) + 1)
      r4 == NextRand(Advance(r3, GenomeLen))
      split == RandInt(r4, 0, Len(parent1.genome))
  IN  << [child1 EXCEPT !.genome = Splice(parent1.genome, parent2.genome, split),
                        !.gref = 2 * child1.id + 1],
         [child2 EXCEPT !.genome = Splice(parent2.genome, parent1.genome, split),
                        !.gref = 2 * child2.id + 1] >>

\* Simulation._crossover; ok = FALSE when a random.choice is made on an empty
\* sequence (IndexError): that of parent1 with no elite, that of parent2 with one
Crossover(elites, r, id, n) ==
  LET pairs == PairCount(n, Len(elites))
  IN  IF pairs > 0 /\ Len(elites) < 2
      THEN [ok |-> FALSE, rockets |-> elites,
            rng |-> IF Len(elites) = 0 THEN r ELSE NextRand(r), nextId |-> id]
      ELSE [ok |-> TRUE,
            rockets |-> elites \o
              [m \in 1..(2 * pairs) |-> Pair((m + 1) \div 2, elites, r, id)[2 - (m % 2)]],
            rng |-> Advance(r, pairs * DrawsPerPair),
            nextId |-> id + 2 * pairs]

\* rocket.genome[i] = v in pool rs, for the rocket at place j: the write goes
\* to the list the rocket refers to, and every rocket referring to that list
\* sees it
SetGene(rs, j, i, v) ==
  << >> \o
  [k \in 1..Len(rs) |->
     IF rs[k].gref = rs[j].gref THEN [rs[k] EXCEPT !.genome[i] = v] ELSE rs[k]]

RECURSIVE MutateGenes(_, _, _, _)
\* the inner loop of Simulation._mutation for the rocket at place j of pool
\* rs, from gene i on
MutateGenes(rs, j, i, r) ==
  IF i > Len(rs[j].genome) THEN [rockets |-> rs, rng |-> r]
  ELSE LET r1 == NextRand(r)
       IN  IF UniformBelowTenth(r1)
           THEN MutateGenes(SetGene(rs, j, i, RandInt(NextRand(r1), GeneMin, GeneMax)),
                            j, i + 1, NextRand(r1))
           ELSE MutateGenes(rs, j, i + 1, r1)

RECURSIVE MutateRange(_, _, _, _)
\* the outer loop of Simulation._mutation over the rockets at places lo..hi
\* of pool rs, in order; a place beyond the pool holds no rocket
MutateRange(rs, lo, hi, r) ==
  IF lo > Len(rs) \/ lo > hi THEN [rockets |-> rs, rng |-> r]
  ELSE IF lo = hi THEN MutateGenes(rs, lo, 1, r)
  ELSE LET mid == (lo + hi) \div 2
           left == MutateRange(rs, lo, mid, r)
       IN  MutateRange(left.rockets, mid + 1, hi, left.rng)

\* Mutation that leaves the first rocket of the pool as it is
MutationSparesFirst(rs, r) == MutateRange(rs, 2, Len(rs), r)

\* Simulation._mutation
Mutation(rs, r) == MutateRange(rs, 1, Len(rs), r)

\* the pipeline of Simulation.next_gen on population rs: selection (fires
\* telling whether its branch is taken), crossover, mutation, reset;
\* ok = FALSE when crossover raises
BreedPoolWith(rs, r, id, n, st, fires) ==
  LET r1 == NextRand(r)
      sel == SelectionWith(rs, fires)
      cross == Crossover(sel.result, r1, id, n)
      mut == Mutation(cross.rockets, cross.rng)
  IN  IF cross.ok
      THEN [ok |-> TRUE, rockets |-> ResetRockets(mut.rockets, st),
            rng |-> mut.rng, nextId |-> cross.nextId]
      ELSE [ok |-> FALSE, rockets |-> sel.held, rng |-> cross.rng,
            nextId |-> cross.nextId]

\* the branch of _selection is taken when the draw made in generator state r
\* is at most 0.1
BreedPool(rs, r, id, n, st) ==
  BreedPoolWith(rs, r, id, n, st, UniformBelowTenth(NextRand(r)))

\* NextGen without the increment of the generation counter
NextGenSameGeneration(rs, r, id, n, st, idx, gen) ==
  LET b == BreedPool(rs, r, id, n, st)
  IN  [ok |-> b.ok, rockets |-> b.rockets, rng |-> b.rng, nextId |-> b.nextId,
       index |-> IF b.ok THEN 0 ELSE idx,
       generation |-> gen]

\* Simulation.next_gen: the new pool, index = 0 and generation += 1; an
\* exception of the pipeline leaves the fields of the simulation as they were
NextGen(rs, r, id, n, st, idx, gen) ==
  LET b == BreedPool(rs, r, id, n, st)
  IN  [ok |-> b.ok, rockets |-> b.rockets, rng |-> b.rng, nextId |-> b.nextId,
       index |-> IF b.ok THEN 0 ELSE idx,
       generation |-> IF b.ok THEN gen + 1 ELSE gen]

\* --------------------------------------------------------------- actions
\* the ghost variable solved after a step; restarted forgets the past
Latch(restarted) ==
  solved' = ((~restarted /\ solved) \/ FoundSolution(rockets', goal'))

\* the end of a loop iteration: while not done
LoopBack == IF done THEN "exit" ELSE "events"

\* Simulation.restart: the fields it sets, with the generator at r and the
\* id counter at id0
RestartFields(c, r, id0) ==
  /\ index' = 0
  /\ obstacles' = c.obstacles
  /\ generation' = 1
  /\ best_fitness' = 0
  /\ fps' = FpsInit
  /\ population' = c.population
  /\ start' = c.start_pos
  /\ goal' = c.goal
  /\ rockets' = ResetRockets(NewRockets(r, id0, c.population), c.start_pos)
  /\ rng' = Advance(r, c.population * GenomeLen)
  /\ nextId' = id0 + c.population

\* main() up to the first loop iteration: Simulation(WIN_SIZE) calls restart()
InitWith(configs) ==
  /\ cnf \in configs
  /\ \E sd \in Seeds :
       /\ rng = Advance(sd, cnf.population * GenomeLen)
       /\ rockets = ResetRockets(NewRockets(sd, 0, cnf.population), cnf.start_pos)
  /\ index = 0
  /\ obstacles = cnf.obstacles
  /\ generation = 1
  /\ best_fitness = 0
  /\ fps = FpsInit
  /\ population = cnf.population
  /\ start = cnf.start_pos
  /\ goal = cnf.goal
  /\ nextId = cnf.population
  /\ pc = "events"
  /\ done = FALSE
  /\ err = "none"
  /\ keys = 0
  /\ op = "init"
  /\ extended = FALSE
  /\ solved = FoundSolution(rockets, goal)

Init == InitWith(Configs)

\* a control event is taken from pygame.event.get()
Event == pc = "events" /\ keys < MaxKeys /\ keys' = keys + 1

\* K_r: sim.restart()
KeyR ==
  /\ Event
  /\ RestartFields(cnf, rng, nextId)
  /\ op' = "restart"
  /\ extended' = FALSE
  /\ Latch(TRUE)
  /\ UNCHANGED << cnf, pc, done, err >>

\* K_a: sim.fps += 5 when sim.fps < 300
KeyA ==
  /\ Event
  /\ fps' = IF fps < FpsMax THEN fps + FpsStep ELSE fps
  /\ op' = "fps"
  /\ UNCHANGED << rockets, index, obstacles, generation, best_fitness, population,
                  start, goal, cnf, rng, nextId, pc, done, err, solved,
                  extended >>

\* K_z: sim.fps -= 5 when sim.fps > 5
KeyZ ==
  /\ Event
  /\ fps' = IF fps > FpsMin THEN fps - FpsStep ELSE fps
  /\ op' = "fps"
  /\ UNCHANGED << rockets, index, obstacles, generation, best_fitness, population,
                  start, goal, cnf, rng, nextId, pc, done, err, solved,
                  extended >>

\* right mouse button: sim.goal = Point(x, y)
MouseRight ==
  /\ Event
  /\ \E p \in MousePoints : goal' = p
  /\ op' = "relocate_goal"
  /\ UNCHANGED extended
  /\ UNCHANGED << rockets, index, obstacles, generation, best_fitness, fps,
                  population, start, cnf, rng, nextId, pc, done, err >>
  /\ Latch(FALSE)

\* QUIT or K_q: done = True; the iteration under way still runs to its end
Quit ==
  /\ Event
  /\ done' = TRUE
  /\ op' = "quit"
  /\ UNCHANGED << rockets, index, obstacles, generation, best_fitness, fps,
                  population, start, goal, cnf, rng, nextId, pc, err, solved,
                  extended >>

\* the for loop over the pending events ends
EndEvents ==
  /\ pc = "events"
  /\ pc' = "breed"
  /\ op' = "end_events"
  /\ UNCHANGED << rockets, index, obstacles, generation, best_fitness, fps,
                  population, start, goal, cnf, rng, nextId, done, err, keys, solved,
                  extended >>

\* BreedDue with the count compared one too high
BreedDueOneLeft == AliveCount(rockets) <= 1

\* the test of main's first if: sim.alive_rockets() == 0
BreedDue == alive_rockets = 0

\* the test of main's second if: not sim.found_solution()
StepDue == ~found_solution

\* if sim.alive_rockets() == 0: sim.next_gen()
Breed ==
  /\ pc = "breed"
  /\ BreedDue
  /\ generation < MaxGen
  /\ LET g == NextGen(rockets, rng, nextId, population, start, index, generation)
     IN  /\ rockets' = g.rockets
         /\ rng' = g.rng
         /\ nextId' = g.nextId
         /\ index' = g.index
         /\ generation' = g.generation
         /\ pc' = IF g.ok THEN "step" ELSE "crashed"
         /\ err' = IF g.ok THEN "none" ELSE "IndexError"
  /\ op' = "next_gen"
  /\ extended' = UniformBelowTenth(NextRand(rng))
  /\ UNCHANGED << obstacles, best_fitness, fps, population, start, goal, cnf,
                  done, keys >>
  /\ Latch(FALSE)

\* the first if of main is not taken
NoBreed ==
  /\ pc = "breed"
  /\ ~BreedDue
  /\ pc' = "step"
  /\ op' = "no_breed"
  /\ UNCHANGED << rockets, index, obstacles, generation, best_fitness, fps,
                  population, start, goal, cnf, rng, nextId, done, err, keys, solved,
                  extended >>

\* if not sim.found_solution(): sim.update(); sim.draw(surface)
Update ==
  /\ pc = "step"
  /\ StepDue
  /\ LET checked == CheckCollision(MoveRockets(rockets, index), obstacles)
     IN  /\ index' = index + 1
         /\ IF TotalDistance(start, goal) = 0
            THEN /\ rockets' = checked
                 /\ pc' = "crashed"
                 /\ err' = "ZeroDivisionError"
                 /\ UNCHANGED best_fitness
            ELSE /\ rockets' = Fitness(checked, start, goal)
                 /\ IF Len(rockets) = 0
                    THEN /\ pc' = "crashed"
                         /\ err' = "ValueError"
                         /\ UNCHANGED best_fitness
                    ELSE /\ pc' = LoopBack
                         /\ err' = "none"
                         /\ best_fitness' =
                              Max(best_fitness, Round(MaxFitness(rockets')))
  /\ op' = "update"
  /\ UNCHANGED extended
  /\ UNCHANGED << obstacles, generation, fps, population, start, goal, cnf, rng,
                  nextId, done, keys >>
  /\ Latch(FALSE)

\* the second if of main is not taken: nothing moves and nothing is drawn
Frozen ==
  /\ pc = "step"
  /\ ~StepDue
  /\ pc' = LoopBack
  /\ op' = "frozen"
  /\ UNCHANGED << rockets, index, obstacles, generation, best_fitness, fps,
                  population, start, goal, cnf, rng, nextId, done, err, keys, solved,
                  extended >>

Next ==
  \/ KeyR
  \/ KeyA
  \/ KeyZ
  \/ MouseRight
  \/ Quit
  \/ EndEvents
  \/ Breed
  \/ NoBreed
  \/ Update
  \/ Frozen

Spec == Init /\ [][Next]_vars

\* the size runs: the loop without control events, over more populations
InitSizes == InitWith(SizeConfigs)

NextSizes ==
  \/ EndEvents
  \/ Breed
  \/ NoBreed
  \/ Update
  \/ Frozen

SpecSizes == InitSizes /\ [][NextSizes]_vars

\* ----------------------------------------------------------------- claims
\* C1: in every loop iteration next_gen runs if and only if the alive-count
\* is 0 at main's test: it never runs while a rocket is alive and is never
\* skipped when none is, and it runs nowhere else.
C1_BreedingIffNoneAlive ==
  [][ /\ (pc = "breed") => ((op' = "next_gen") <=> (AliveCount(rockets) = 0))
      /\ (op' = "next_gen") =>
           /\ pc = "breed"
           /\ \/ generation' = generation + 1
              \/ err' = "IndexError" ]_vars

\* a breeding of a full population has happened, all of its rockets dead before
C1_Witness ==
  /\ op = "next_gen"
  /\ generation = 2
  /\ population >= 10
  /\ AliveCount(rockets) = Len(rockets)

\* C2 (as claimed): once a rocket is within GoalRadius of the goal, no later
\* step of the loop is a (completed) update or breeding until restart() is
\* called.
C2_SolvedFreeze ==
  [][ (solved /\ op' # "restart" /\ pc' # "crashed")
        => (op' \notin {"update", "next_gen"}) ]_vars

\* C3 (as claimed): when after a tick the alive-count is 0 and a rocket is
\* within GoalRadius of the (unmoved) goal, the loop does not breed: next_gen
\* is not run, the generation counter keeps its value, no rocket is reset.
C3_SolvedBeforeBreeding ==
  [][ ( /\ pc = "breed"
        /\ index > 0
        /\ goal = cnf.goal
        /\ AliveCount(rockets) = 0
        /\ FoundSolution(rockets, goal) )
      => ( /\ op' # "next_gen"
           /\ generation' = generation
           /\ rockets' = rockets ) ]_vars

\* C4: a rocket whose alive flag is false keeps its position, heading and
\* alive flag in every step that is not the reset of next_gen or restart();
\* in particular in every later tick of its generation.
C4_DeadRocketsFrozen ==
  [][ (op' \notin {"next_gen", "restart"}) =>
        /\ Len(rockets') = Len(rockets)
        /\ \A j \in 1..Len(rockets) :
             ~rockets[j].alive =>
               /\ rockets'[j].pos = rockets[j].pos
               /\ rockets'[j].angle = rockets[j].angle
               /\ rockets'[j].alive = FALSE ]_vars

\* a tick has run while one rocket was already dead (inside the obstacle,
\* where it died a tick earlier) and others were alive (they then left the window)
C4_Witness ==
  /\ op = "update"
  /\ index = 3
  /\ \E j \in 1..Len(rockets) : ~rockets[j].alive /\ rockets[j].pos.y >= 0
  /\ \E j \in 1..Len(rockets) : ~rockets[j].alive /\ rockets[j].pos.y < 0

\* C5 (as claimed): with a population below 10 a breeding never ends in an
\* unhandled failure of the parent draw and never leaves an empty population.
C5_DegenerateHandled ==
  population < 10 =>
    /\ err # "IndexError"
    /\ ~(op = "next_gen" /\ Len(rockets) = 0)

\* C6: for a configured population N >= 10, every breeding of a run leaves
\* E + 2 * floor((N - E) / 2) rockets, E = floor(0.2 * size before); that is
\* N or N - 1, at the first breeding and at every later one.
C6_PostBreedingSize ==
  [][ (op' = "next_gen" /\ population >= 10) =>
        LET e == Len(rockets) \div 5
        IN  /\ pc' # "crashed"
            /\ Len(rockets') = e + 2 * ((population - e) \div 2)
            /\ Len(rockets') \in {population, population - 1} ]_vars

\* the second breeding of a run with N = 101: the size has stayed at 100
C6_Witness ==
  /\ op = "next_gen"
  /\ generation = 3
  /\ population = 101
  /\ Len(rockets) = 100

\* C7 (as claimed): in a tick the instruction genome[index mod L] is added to
\* the heading of every alive rocket first and the move of length Force is
\* made along the new heading.
C7_TurnThenMove ==
  [][ (op' = "update") =>
        \A j \in 1..Len(rockets) :
          rockets[j].alive =>
            LET h == rockets[j].angle
                       + rockets[j].genome[(index % Len(rockets[j].genome)) + 1]
            IN  /\ rockets'[j].angle = h
                /\ rockets'[j].pos = Point(rockets[j].pos.x + Force * Cos(h),
                                           rockets[j].pos.y + Force * Sin(h)) ]_vars

\* C7 (amended): in a tick every alive rocket moves by Force along the heading
\* it had before the tick, and genome[index mod L] is added to the heading
\* after the move; the first move of a generation is along 270 (straight up,
\* y decreasing), whatever genome[0] is.
C7_MoveThenTurn ==
  [][ (op' = "update") =>
        \A j \in 1..Len(rockets) :
          rockets[j].alive =>
            /\ rockets'[j].angle =
                 rockets[j].angle
                   + rockets[j].genome[(index % Len(rockets[j].genome)) + 1]
            /\ rockets'[j].pos =
                 Point(rockets[j].pos.x + Force * Cos(rockets[j].angle),
                       rockets[j].pos.y + Force * Sin(rockets[j].angle))
            /\ (index = 0) =>
                 rockets'[j].pos =
                   Point(rockets[j].pos.x, rockets[j].pos.y - Force * Scale) ]_vars

\* after the first tick of a generation a rocket has turned (genome[0] # 0)
\* and has moved straight up all the same
C7_Witness ==
  /\ op = "update"
  /\ index = 1
  /\ \E j \in 1..Len(rockets) :
       /\ rockets[j].genome[1] # 0
       /\ rockets[j].angle = InitAngle + rockets[j].genome[1]
       /\ rockets[j].pos = Fix(Point(start.x, start.y + ResetUp - ResetDown - Force))

\* C8 (as claimed): with a population of at least 10 no simulation step
\* fails, whatever point of the window the goal is moved to.
C8_NoStepFails ==
  population >= 10 => ~(op = "update" /\ pc = "crashed")

\* C9: the generation counter is 1 at start and after restart(), goes up by
\* exactly 1 at each breeding that produces a generation and changes at no
\* other step; the tick index is 0 at start, after restart() and after each
\* breeding, goes up by exactly 1 at each update and changes at no other step.
C9_Counters ==
  /\ generation = 1
  /\ index = 0
  /\ [][ /\ (op' = "restart") => (generation' = 1 /\ index' = 0)
         /\ (op' = "next_gen" /\ pc' # "crashed")
              => (generation' = generation + 1 /\ index' = 0)
         /\ (op' = "update") => (generation' = generation /\ index' = index + 1)
         /\ (op' \notin {"restart", "next_gen", "update"} \/ pc' = "crashed")
              => (generation' = generation)
         /\ (op' \notin {"restart", "next_gen", "update"})
              => (index' = index) ]_vars

\* two breedings and a tick after them
C9_Witness ==
  /\ op = "update"
  /\ generation = 3
  /\ index = 1

\* C10: restart() in any state leaves generation 1, tick index 0, the start,
\* goal and obstacles of the configuration, and exactly N rockets, each newly
\* created (an id never handed out before, fitness unevaluated), alive, at the
\* reset position, with heading 270.
C10_RestartFromScratch ==
  [][ (op' = "restart") =>
        /\ generation' = 1
        /\ index' = 0
        /\ start' = cnf.start_pos
        /\ goal' = cnf.goal
        /\ obstacles' = cnf.obstacles
        /\ population' = cnf.population
        /\ Len(rockets') = cnf.population
        /\ \A j \in 1..Len(rockets') :
             /\ rockets'[j].id >= nextId
             /\ \A k \in 1..Len(rockets) : rockets'[j].id # rockets[k].id
             /\ \A k \in 1..Len(rockets') : (k # j) => rockets'[k].id # rockets'[j].id
             /\ rockets'[j].fitness = Unevaluated * Scale
             /\ rockets'[j].alive
             /\ rockets'[j].angle = InitAngle
             /\ rockets'[j].pos =
                  Fix(Point(cnf.start_pos.x,
                            cnf.start_pos.y + ResetUp - ResetDown)) ]_vars

\* restart() in a later generation: ids have been handed out to offspring
\* (their number, 8 for N = 10, is no multiple of N), and the counter is 1 again
C10_Witness ==
  /\ op = "restart"
  /\ population = 10
  /\ nextId % population # 0
  /\ generation = 1

\* C11: in every reachable state every rocket has a genome of exactly
\* GenomeLen genes (the L of the program), each an integer in [-7, 7]: after
\* creation, after crossover and after mutation, in every generation.
C11_GenomeShape ==
  \A j \in 1..Len(rockets) :
    /\ Len(rockets[j].genome) = GenomeLen
    /\ \A i \in 1..Len(rockets[j].genome) :
         rockets[j].genome[i] \in Int /\ -7 <= rockets[j].genome[i]
                                      /\ rockets[j].genome[i] <= 7

\* a second breeding has made a full population: its offspring come from
\* parents that were themselves spliced and mutated
C11_Witness ==
  /\ op = "next_gen"
  /\ generation = 3
  /\ Len(rockets) >= 10
  /\ \E j \in 1..Len(rockets) : rockets[j].fitness = Unevaluated * Scale

\* the ids of the rockets of a population
Ids(rs) == { rs[j].id : j \in 1..Len(rs) }

\* C12: ids are unique and stable: no two rockets of the population share an
\* id; a rocket that enters the population (at start, as offspring, by
\* restart()) has an id greater than every id handed out before, which are
\* the ids below the counter; and a step that is neither a breeding nor a
\* restart leaves every rocket's id as it was.
C12_IdsUniqueStable ==
  /\ [](\A i, j \in 1..Len(rockets) :
          /\ rockets[i].id < nextId
          /\ (i # j => rockets[i].id # rockets[j].id))
  /\ [][ /\ nextId' >= nextId
         /\ \A j \in 1..Len(rockets') :
              \/ rockets'[j].id \in Ids(rockets)
              \/ /\ rockets'[j].id >= nextId
                 /\ \A i \in 1..Len(rockets) : rockets'[j].id > rockets[i].id
         /\ (op' \notin {"next_gen", "restart"}) =>
              /\ Len(rockets') = Len(rockets)
              /\ \A j \in 1..Len(rockets) : rockets'[j].id = rockets[j].id ]_vars

\* a breeding after a restart: the population holds survivors of the rockets
\* restart() made and offspring created after them
C12_Witness ==
  /\ op = "next_gen"
  /\ pc # "crashed"
  /\ population = 10
  /\ \E j \in 1..Len(rockets) : rockets[j].id >= 2 * population
  /\ \E j \in 1..Len(rockets) : rockets[j].id < 2 * population

\* the place in population rs of the rocket with the given id
PlaceOf(rs, id) == CHOOSE i \in 1..Len(rs) : rs[i].id = id

\* C13: at every breeding, selection on the n rockets of the population
\* returns exactly floor(0.2 * n) rockets of the population, in descending
\* fitness order, rockets of equal fitness in their population order, every
\* returned rocket at least as fit as every rocket not returned (at equal
\* fitness the returned one stands earlier in the population); they are the
\* first rockets of the population the breeding makes.
C13_SelectionTopFifth ==
  [][ (op' = "next_gen") =>
        LET sel == Selection(rockets, NextRand(rng)).result
            n == Len(rockets)
            at(k) == PlaceOf(rockets, sel[k].id)
        IN  /\ Len(sel) = n \div 5
            /\ \A k \in 1..Len(sel) :
                 /\ \E i \in 1..n : sel[k] = rockets[i]
                 /\ (pc' # "crashed") => rockets'[k].id = sel[k].id
            /\ \A k, m \in 1..Len(sel) :
                 (k < m) =>
                   /\ sel[k].id # sel[m].id
                   /\ sel[k].fitness >= sel[m].fitness
                   /\ (sel[k].fitness = sel[m].fitness) => at(k) < at(m)
            /\ \A k \in 1..Len(sel) :
                 \A i \in 1..n :
                   (rockets[i].id \notin Ids(sel)) =>
                     /\ sel[k].fitness >= rockets[i].fitness
                     /\ (sel[k].fitness = rockets[i].fitness) => at(k) < i ]_vars

\* a breeding has kept two elites of equal fitness and left out a rocket
C13_Witness ==
  /\ op = "next_gen"
  /\ pc # "crashed"
  /\ Len(rockets) >= 10
  /\ \E k \in 1..(Len(rockets) \div 5 - 1) :
       /\ rockets[k].fitness = rockets[k + 1].fitness
       /\ rockets[k].fitness # Unevaluated * Scale
       /\ rockets[k + 1].fitness # Unevaluated * Scale

\* genome a up to gene s followed by genome b from gene s + 1 on
Joined(a, b, s) == [i \in 1..Len(a) |-> IF i <= s THEN a[i] ELSE b[i]]

\* C14: at every breeding, for every pair of children crossover makes there
\* are two different rockets of the elite pool and a split s in 0..L with
\* child1.genome = parent1.genome[0:s] ++ parent2.genome[s:] and
\* child2.genome = parent2.genome[0:s] ++ parent1.genome[s:]; each child has
\* an id no rocket had before, different from every other id of the pool,
\* and fitness -1, and stands with that id and fitness in the new population.
C14_CrossoverPairs ==
  [][ (op' = "next_gen" /\ pc' # "crashed") =>
        LET elites == Selection(rockets, NextRand(rng)).result
            cross == Crossover(elites, NextRand(rng), nextId, population)
            pool == cross.rockets
            E == Len(elites)
        IN  /\ Len(pool) = Len(rockets')
            /\ (Len(pool) - E) % 2 = 0
            /\ \A k \in 1..((Len(pool) - E) \div 2) :
                 LET child1 == pool[E + 2 * k - 1]
                     child2 == pool[E + 2 * k]
                 IN  /\ \E p1, p2 \in 1..E :
                          /\ p1 # p2
                          /\ elites[p1].id # elites[p2].id
                          /\ \E s \in 0..GenomeLen :
                               /\ child1.genome =
                                    Joined(elites[p1].genome, elites[p2].genome, s)
                               /\ child2.genome =
                                    Joined(elites[p2].genome, elites[p1].genome, s)
                     /\ child1.id >= nextId /\ child2.id >= nextId
                     /\ child1.id # child2.id
                     /\ child1.fitness = -1 * Scale
                     /\ child2.fitness = -1 * Scale
            /\ \A m \in (E + 1)..Len(pool) :
                 /\ \A i \in 1..Len(pool) : (i # m) => pool[i].id # pool[m].id
                 /\ rockets'[m].id = pool[m].id
                 /\ rockets'[m].fitness = -1 * Scale ]_vars

\* a breeding has made a child that is neither parent's copy: its first genes
\* are those of one elite, its last genes those of another, and mutation
\* has changed none of the three genomes since
C14_Witness ==
  /\ op = "next_gen"
  /\ pc # "crashed"
  /\ LET E == Len(rockets) \div 5
     IN  \E m \in (E + 1)..Len(rockets) :
           \E p1, p2 \in 1..E :
             \E s \in 1..(GenomeLen - 1) :
               /\ p1 # p2
               /\ rockets[m].fitness = -1 * Scale
               /\ rockets[m].genome =
                    Joined(rockets[p1].genome, rockets[p2].genome, s)
               /\ rockets[m].genome # rockets[p1].genome
               /\ rockets[m].genome # rockets[p2].genome

\* the genes (rocket j, gene i) of pool rs that Simulation._mutation changes
\* when the generator is in state r
Mutated(rs, r) ==
  LET mut == Mutation(rs, r).rockets
  IN  { p \in (1..Len(rs)) \X (1..GenomeLen) :
          mut[p[1]].genome[p[2]] # rs[p[1]].genome[p[2]] }

\* C15: at every breeding the elites selection returns are the first E rockets
\* of the new population, in that order and with their ids, and the offspring
\* follow them; mutation runs over the whole pool: for every gene of every
\* rocket of the pool, elite or offspring, there is a generator state in
\* which mutation replaces it, and what replaces it is in [-7, 7].
C15_ElitesKeptAndMutable ==
  [][ (op' = "next_gen" /\ pc' # "crashed") =>
        LET elites == Selection(rockets, NextRand(rng)).result
            pool == Crossover(elites, NextRand(rng), nextId, population).rockets
            E == Len(elites)
        IN  /\ \A k \in 1..E :
                 /\ rockets'[k].id = elites[k].id
                 /\ rockets'[k].id \in Ids(rockets)
            /\ \A m \in (E + 1)..Len(rockets') : rockets'[m].id \notin Ids(rockets)
            /\ UNION { Mutated(pool, r) : r \in 1..MaxMutationState }
                 = (1..Len(pool)) \X (1..GenomeLen)
            /\ \A r \in 1..MaxMutationState :
                 LET mut == Mutation(pool, r).rockets
                 IN  \A j \in 1..Len(pool) : \A i \in 1..GenomeLen :
                       mut[j].genome[i] \in (-7)..7 ]_vars

\* a first breeding has kept an elite whose genome is no longer the one it
\* was created with: mutation has replaced a gene of an elite
C15_Witness ==
  /\ op = "next_gen"
  /\ pc # "crashed"
  /\ generation = 2
  /\ \E k \in 1..(Len(rockets) \div 5) :
       /\ rockets[k].id < population
       /\ \A sd \in Seeds :
            rockets[k].genome # Rocket(Advance(sd, rockets[k].id * GenomeLen), 0).genome

\* C16: the branch of selection that appends the two least fit rockets has no
\* observable effect: at every breeding, for the population bred, selection
\* returns the same elite pool and leaves the same population with the
\* simulation whether the branch is taken or not (only its local list is two
\* rockets longer, or one in a population of one), the breeding makes the same
\* population, generator state and id counter either way, and that population
\* is the one the step installs.
C16_BranchWithoutEffect ==
  [][ (op' = "next_gen") =>
        LET taken == SelectionWith(rockets, TRUE)
            skipped == SelectionWith(rockets, FALSE)
            n == Len(rockets)
        IN  /\ taken.result = skipped.result
            /\ taken.held = rockets
            /\ skipped.held = rockets
            /\ Len(skipped.ranked) = n
            /\ Len(taken.ranked) = n + (IF n >= 2 THEN 2 ELSE n)
            /\ BreedPoolWith(rockets, rng, nextId, population, start, TRUE)
                 = BreedPoolWith(rockets, rng, nextId, population, start, FALSE)
            /\ rockets' =
                 BreedPoolWith(rockets, rng, nextId, population, start,
                               extended').rockets ]_vars

\* a breeding in which the branch was taken has made a full population
C16_Witness ==
  /\ op = "next_gen"
  /\ pc # "crashed"
  /\ extended
  /\ Len(rockets) >= 10

\* C17: right after every completed breeding every rocket of the new
\* population, elite or offspring, is alive, has heading 270 and stands at
\* start + (0, -47), so as many rockets are alive as the population holds;
\* the rockets reset carry the genomes mutation left; and start is the start
\* point of the configuration, wherever the goal has been moved.
C17_ResetAfterBreeding ==
  [][ (op' = "next_gen" /\ pc' # "crashed") =>
        LET elites == Selection(rockets, NextRand(rng)).result
            cross == Crossover(elites, NextRand(rng), nextId, population)
            mut == Mutation(cross.rockets, cross.rng).rockets
        IN  /\ \A j \in 1..Len(rockets') :
                 /\ rockets'[j].alive = TRUE
                 /\ rockets'[j].angle = 270
                 /\ rockets'[j].pos.x = cnf.start_pos.x * Scale
                 /\ rockets'[j].pos.y = (cnf.start_pos.y - 47) * Scale
            /\ AliveCount(rockets') = Len(rockets')
            /\ Len(rockets') = Len(mut)
            /\ \A j \in 1..Len(mut) : rockets'[j].genome = mut[j].genome
            /\ start' = cnf.start_pos ]_vars

\* a breeding made after the goal was moved away from the configured one: the
\* new population has elites and offspring, all alive
C17_Witness ==
  /\ op = "next_gen"
  /\ pc # "crashed"
  /\ goal # cnf.goal
  /\ Len(rockets) >= 10
  /\ AliveCount(rockets) = Len(rockets)
  /\ \E j \in 1..Len(rockets) : rockets[j].fitness # Unevaluated * Scale

\* C18: after each tick a rocket is alive if and only if it was alive before
\* the tick and the position it has after the move has 0 <= x <= 600,
\* 0 <= y <= 800 and is inside no obstacle (a rectangle holds its left and
\* top edges, not its right and bottom ones); a position on the edge of the
\* window does not kill, and no point but the position after the move is
\* tested.
C18_AliveAfterTick ==
  [][ (op' = "update") =>
        /\ Len(rockets') = Len(rockets)
        /\ \A j \in 1..Len(rockets) :
             LET p == rockets'[j].pos
             IN  rockets'[j].alive <=>
                   /\ rockets[j].alive
                   /\ 0 <= p.x /\ p.x <= 600 * Scale
                   /\ 0 <= p.y /\ p.y <= 800 * Scale
                   /\ \A k \in 1..Len(obstacles) :
                        ~ /\ obstacles[k].x * Scale <= p.x
                          /\ p.x < (obstacles[k].x + obstacles[k].w) * Scale
                          /\ obstacles[k].y * Scale <= p.y
                          /\ p.y < (obstacles[k].y + obstacles[k].h) * Scale ]_vars

\* after the second tick since the reset a rocket is alive on the top edge of
\* the window, straight above an obstacle that lies between that edge and the
\* reset position: the rocket has flown across the obstacle between two ticks
C18_Witness ==
  /\ op = "update"
  /\ index = 2
  /\ \E j \in 1..Len(rockets) :
       \E k \in 1..Len(obstacles) :
         /\ rockets[j].alive
         /\ rockets[j].pos.y = 0
         /\ obstacles[k].x * Scale <= rockets[j].pos.x
         /\ rockets[j].pos.x < (obstacles[k].x + obstacles[k].w) * Scale
         /\ obstacles[k].y > 0
         /\ obstacles[k].y + obstacles[k].h <= start.y + ResetUp - ResetDown

\* C19: for N >= 10, whenever breeding runs, an update with its fitness pass
\* has run since the last reset: the tick index is at least 1, and the fitness
\* selection ranks is, for every rocket, the one _fitness gives for the
\* position the rocket has now and a goal that was the simulation's goal (the
\* configured one or a relocated one), the same goal for all rockets; it is
\* neither the -1 of creation nor a value computed before the reset.
C19_BreedingRanksFreshFitness ==
  [][ (op' = "next_gen" /\ population >= 10) =>
        /\ index >= 1
        /\ \E g \in MousePoints \cup {cnf.goal} :
             /\ Distance(Fix(start), Fix(g)) # 0
             /\ \A j \in 1..Len(rockets) :
                  rockets[j].fitness =
                    100 * Scale
                      - (Distance(rockets[j].pos, Fix(g)) * 100 * Scale)
                          \div Distance(Fix(start), Fix(g)) ]_vars

\* a second breeding has kept a rocket created at start: it went into the
\* second generation with the fitness of the first and was ranked again
C19_Witness ==
  /\ op = "next_gen"
  /\ pc # "crashed"
  /\ generation = 3
  /\ population >= 10
  /\ \E k \in 1..(Len(rockets) \div 5) :
       /\ rockets[k].id < population
       /\ rockets[k].fitness # Unevaluated * Scale

\* C20: no two rockets of a population refer to one genome list: in every
\* reachable state the lists of the rockets are pairwise different objects;
\* in the pool crossover hands to mutation the list of every child is
\* different from the lists of all elites and of all other children; and
\* there the assignment genome[i] = v for one rocket, for every rocket, every
\* gene and both ends v of [-7, 7], is seen in that rocket and leaves the
\* genome of every other rocket of the pool as it was.
C20_NoSharedGenome ==
  /\ [](\A i, j \in 1..Len(rockets) :
          (i # j) => rockets[i].gref # rockets[j].gref)
  /\ [][ (op' = "next_gen" /\ pc' # "crashed") =>
           LET elites == Selection(rockets, NextRand(rng)).result
               pool == Crossover(elites, NextRand(rng), nextId, population).rockets
           IN  /\ \A j, k \in 1..Len(pool) :
                    (j # k) => pool[j].gref # pool[k].gref
               /\ \A j \in 1..Len(pool) : \A i \in 1..GenomeLen :
                    \A v \in {-7, 7} :
                      LET written == SetGene(pool, j, i, v)
                      IN  /\ written[j].genome[i] = v
                          /\ \A k \in 1..Len(pool) :
                               (k # j) => written[k].genome = pool[k].genome ]_vars

\* a first breeding has changed a gene of an elite and made a child that
\* still has, gene by gene, the genome that elite was created with
C20_Witness ==
  /\ op = "next_gen"
  /\ pc # "crashed"
  /\ generation = 2
  /\ LET E == Len(rockets) \div 5
     IN  \E k \in 1..E : \E m \in (E + 1)..Len(rockets) :
           /\ rockets[k].id < population
           /\ rockets[k].genome # rockets[m].genome
           /\ \E sd \in Seeds :
                rockets[m].genome
                  = Rocket(Advance(sd, rockets[k].id * GenomeLen), 0).genome
           /\ \A sd \in Seeds :
                rockets[k].genome
                  # Rocket(Advance(sd, rockets[k].id * GenomeLen), 0).genome

====
